---------------------------- MODULE Spec2Model ----------------------------
(***************************************************************************)
(* Model of web3/middleware/geth.py: the geth formatting middleware.  The  *)
(* middleware holds two tables, request_formatters and result_formatters,  *)
(* that map a JSON-RPC method name to a formatter built from a handful of  *)
(* combinators.  A formatter is modelled as a term (a record tagged by its *)
(* combinator) and Apply evaluates a term on a value the way Python calls  *)
(* the closure the combinator returned.                                    *)
(*                                                                         *)
(* Values are records tagged by t, each kind with a payload field of its   *)
(* own: null, bool (b), int (n), text and bytes (s), seq (a list, items),  *)
(* map (a dict, map), and fail (kind), the outcome of a call that raised.  *)
(* A text or bytes payload is a sequence of symbols.  Hex text is written  *)
(* character by character (<<"0","x","f">>); a field name or an opaque     *)
(* word such as "latest" is written as one symbol that no converter looks  *)
(* inside.                                                                 *)
(***************************************************************************)
EXTENDS Integers, Sequences, FiniteSets, TLC

VARIABLES pc, method, input, output

vars == <<pc, method, input, output>>

-----------------------------------------------------------------------------
(* Values *)

Null == [t |-> "null"]

Bool(b) == [t |-> "bool", b |-> b]

Integer(n) == [t |-> "int", n |-> n]

Text(s) == [t |-> "text", s |-> s]

Bytes(s) == [t |-> "bytes", s |-> s]

List(s) == [t |-> "seq", items |-> s]

Map(f) == [t |-> "map", map |-> f]

Word(w) == Text(<<w>>)

\* A raised exception.  IndexError is the positional combinator's error;
\* ConversionError stands for the TypeError, ValueError, AttributeError or
\* UnicodeDecodeError a converter or a container combinator raises.
Fail(kind) == [t |-> "fail", kind |-> kind]

IsFail(x) == x.t = "fail"

\* A dict with text keys, written as a TLA+ record.
Obj(r) == Map([k \in {Word(n) : n \in DOMAIN r} |-> r[k.s[1]]])

\* A dict written as a set of <<key, value>> pairs with distinct keys.
Dict(pairs) ==
    Map([k \in {p[1] : p \in pairs} |-> (CHOOSE p \in pairs : p[1] = k)[2]])

Keys(m) == DOMAIN m.map

-----------------------------------------------------------------------------
(* Scalar converters *)

HexChars ==
    <<"0", "1", "2", "3", "4", "5", "6", "7",
      "8", "9", "a", "b", "c", "d", "e", "f">>

UpperHex == <<"A", "B", "C", "D", "E", "F">>

Lower(c) ==
    IF \E i \in 1..6 : UpperHex[i] = c
    THEN HexChars[10 + (CHOOSE i \in 1..6 : UpperHex[i] = c)]
    ELSE c

IsHexChar(c) == \E i \in 1..16 : HexChars[i] = Lower(c)

HexCharValue(c) == (CHOOSE i \in 1..16 : HexChars[i] = Lower(c)) - 1

RECURSIVE HexDigits(_)
HexDigits(n) ==
    IF n < 16 THEN <<HexChars[n + 1]>>
    ELSE HexDigits(n \div 16) \o <<HexChars[(n % 16) + 1]>>

\* Python's builtin hex: any int (bool included, True is 1) gives its hex
\* text, a negative one with a leading minus sign; anything else raises
\* TypeError.
PyHex(x) ==
    CASE x.t = "int" ->
           IF x.n < 0 THEN Text(<<"-", "0", "x">> \o HexDigits(-x.n))
           ELSE Text(<<"0", "x">> \o HexDigits(x.n))
      [] x.t = "bool" -> Text(<<"0", "x", IF x.b THEN "1" ELSE "0">>)
      [] OTHER -> Fail("ConversionError")

HasHexPrefix(s) == Len(s) >= 2 /\ s[1] = "0" /\ s[2] \in {"x", "X"}

StripHexPrefix(s) == IF HasHexPrefix(s) THEN SubSeq(s, 3, Len(s)) ELSE s

RECURSIVE HexNumber(_)
HexNumber(s) ==
    IF Len(s) = 0 THEN 0
    ELSE 16 * HexNumber(SubSeq(s, 1, Len(s) - 1)) + HexCharValue(s[Len(s)])

\* hex_to_integer(value): text of an optional 0x/0X prefix and hex digits of
\* either case.
HexToInteger(x) ==
    IF x.t # "text" THEN Fail("ConversionError")
    ELSE LET d == StripHexPrefix(x.s)
         IN  IF Len(d) > 0 /\ \A i \in 1..Len(d) : IsHexChar(d[i])
             THEN Integer(HexNumber(d))
             ELSE Fail("ConversionError")

\* The one byte of the model that is not ASCII.
NonAscii == "<ff>"

BytesToAscii(x) ==
    IF x.t # "bytes" THEN Fail("ConversionError")
    ELSE IF \E i \in 1..Len(x.s) : x.s[i] = NonAscii
         THEN Fail("ConversionError")
         ELSE Text(x.s)

\* The hex encoding of the bytes of the model that are not text symbols.
ByteHex(b) ==
    CASE b = "<00>" -> <<"0", "0">>
      [] b = "<ab>" -> <<"a", "b">>
      [] b = NonAscii -> <<"f", "f">>

IsRawByte(b) == b \in {"<00>", "<ab>", NonAscii}

RECURSIVE EncodeHex(_)
EncodeHex(s) ==
    IF Len(s) = 0 THEN <<>>
    ELSE ByteHex(s[1]) \o EncodeHex(SubSeq(s, 2, Len(s)))

\* to_normalized_address(value): the hex text of an address (40 hex digits, with
\* or without the prefix, any letter case) or its 20 raw bytes; gives the
\* lowercase prefixed text.
ToNormalizedAddress(x) ==
    CASE x.t = "text" ->
           LET d == StripHexPrefix(x.s)
           IN  IF Len(d) = 40 /\ \A i \in 1..40 : IsHexChar(d[i])
               THEN Text(<<"0", "x">> \o [i \in 1..40 |-> Lower(d[i])])
               ELSE Fail("ConversionError")
      [] x.t = "bytes" ->
           IF Len(x.s) = 20 /\ \A i \in 1..20 : IsRawByte(x.s[i])
           THEN Text(<<"0", "x">> \o EncodeHex(x.s))
           ELSE Fail("ConversionError")
      [] OTHER -> Fail("ConversionError")

-----------------------------------------------------------------------------
(* Predicates *)

IsInteger(x) == x.t = "int"

IsNull(x) == x.t = "null"

IsDict(x) == x.t = "map"

IsString(x) == x.t \in {"text", "bytes"}

IsBytes(x) == x.t = "bytes"

IsNotNull(x) == ~IsNull(x)

-----------------------------------------------------------------------------
(* Formatter terms.  Each is the closure the Python expression of the same *)
(* name builds; Apply below calls it.                                      *)

hex == [op |-> "fn", f |-> "hex"]

hex_to_integer == [op |-> "fn", f |-> "hex_to_integer"]

bytes_to_ascii == [op |-> "fn", f |-> "bytes_to_ascii"]

to_normalized_address == [op |-> "fn", f |-> "to_normalized_address"]

is_integer == "is_integer"

is_null == "is_null"

is_dict == "is_dict"

is_string == "is_string"

is_bytes == "is_bytes"

is_not_null == "is_not_null"

apply_formatter_if(formatter, condition) ==
    [op |-> "if", f |-> formatter, p |-> condition]

apply_formatters_to_dict(formatters) == [op |-> "dict", table |-> formatters]

apply_formatter_to_array(formatter) == [op |-> "array", f |-> formatter]

apply_formatter_at_index(formatter, at_index) ==
    [op |-> "at", f |-> formatter, i |-> at_index]

compose(f, g) == [op |-> "compose", f |-> f, g |-> g]

keymap(f) == [op |-> "keymap", f |-> f]

valmap(f) == [op |-> "valmap", f |-> f]

Holds(p, x) ==
    CASE p = is_integer -> IsInteger(x)
      [] p = is_null -> IsNull(x)
      [] p = is_not_null -> IsNotNull(x)
      [] p = is_dict -> IsDict(x)
      [] p = is_string -> IsString(x)
      [] p = is_bytes -> IsBytes(x)

CallFn(f, x) ==
    CASE f = "hex" -> PyHex(x)
      [] f = "hex_to_integer" -> HexToInteger(x)
      [] f = "bytes_to_ascii" -> BytesToAscii(x)
      [] f = "to_normalized_address" -> ToNormalizedAddress(x)

\* `key in formatters`: the table's keys are text.
InTable(k, table) == k.t = "text" /\ Len(k.s) = 1 /\ k.s[1] \in DOMAIN table

RECURSIVE Apply(_, _)

\* apply_formatter_if(formatter, condition)(value)
ApplyFormatterIf(formatter, condition, value) ==
    IF Holds(condition, value) THEN Apply(formatter, value) ELSE value

\* Faulty variant: only the keys the table lists are written to the new dict.
ApplyFormattersToDictListedKeysOnly(formatters, value) ==
    IF value.t # "map" THEN Fail("ConversionError")
    ELSE LET listed == {k \in Keys(value) : InTable(k, formatters)}
             out == [k \in listed |-> Apply(formatters[k.s[1]], value.map[k])]
         IN  IF \E k \in listed : IsFail(out[k])
             THEN out[CHOOSE k \in listed : IsFail(out[k])]
             ELSE Map(out)

\* apply_formatters_to_dict(formatters)(value): a new dict of the same keys;
\* a converter that raises ends the call.
ApplyFormattersToDict(formatters, value) ==
    IF value.t # "map" THEN Fail("ConversionError")
    ELSE LET out == [k \in Keys(value) |->
                       IF InTable(k, formatters)
                       THEN Apply(formatters[k.s[1]], value.map[k])
                       ELSE value.map[k]]
         IN  IF \E k \in Keys(value) : IsFail(out[k])
             THEN out[CHOOSE k \in Keys(value) : IsFail(out[k])]
             ELSE Map(out)

\* apply_formatter_to_array(formatter)(value): a new list, element by
\* element; the first element that raises ends the call.
ApplyFormatterToArray(formatter, value) ==
    IF value.t # "seq" THEN Fail("ConversionError")
    ELSE LET out == [i \in 1..Len(value.items) |-> Apply(formatter, value.items[i])]
             bad == {i \in 1..Len(value.items) : IsFail(out[i])}
         IN  IF bad # {}
             THEN out[CHOOSE i \in bad : \A j \in bad : i <= j]
             ELSE List(out)

\* apply_formatter_at_index(formatter, at_index)(value): at_index counts
\* from 0; a list too short raises IndexError.
ApplyFormatterAtIndex(formatter, at_index, value) ==
    IF value.t # "seq" THEN Fail("ConversionError")
    ELSE IF at_index + 1 > Len(value.items) THEN Fail("IndexError")
    ELSE LET item == Apply(formatter, value.items[at_index + 1])
         IN  IF IsFail(item) THEN item
             ELSE List([value.items EXCEPT ![at_index + 1] = item])

\* Faulty variant: the functions are applied in the order they are given.
ComposeLeftToRight(f, g, value) ==
    LET mid == Apply(f, value)
    IN  IF IsFail(mid) THEN mid ELSE Apply(g, mid)

\* cytoolz compose(f, g)(value) is f(g(value)): the last function given is
\* the first applied.
Compose(f, g, value) ==
    LET mid == Apply(g, value)
    IN  IF IsFail(mid) THEN mid ELSE Apply(f, mid)

\* cytoolz keymap(f)(d): the dict of f(key) -> value.  Two keys with one
\* image leave one entry; the dicts of the model hold no such keys.
KeyMap(f, d) ==
    IF d.t # "map" THEN Fail("ConversionError")
    ELSE LET new == [k \in Keys(d) |-> Apply(f, k)]
         IN  IF \E k \in Keys(d) : IsFail(new[k])
             THEN new[CHOOSE k \in Keys(d) : IsFail(new[k])]
             ELSE Map([n \in {new[k] : k \in Keys(d)} |->
                         d.map[CHOOSE k \in Keys(d) : new[k] = n]])

\* cytoolz valmap(f)(d): the dict of key -> f(value).
ValMap(f, d) ==
    IF d.t # "map" THEN Fail("ConversionError")
    ELSE LET out == [k \in Keys(d) |-> Apply(f, d.map[k])]
         IN  IF \E k \in Keys(d) : IsFail(out[k])
             THEN out[CHOOSE k \in Keys(d) : IsFail(out[k])]
             ELSE Map(out)

Apply(c, x) ==
    CASE c.op = "fn" -> CallFn(c.f, x)
      [] c.op = "if" -> ApplyFormatterIf(c.f, c.p, x)
      [] c.op = "dict" -> ApplyFormattersToDict(c.table, x)
      [] c.op = "array" -> ApplyFormatterToArray(c.f, x)
      [] c.op = "at" -> ApplyFormatterAtIndex(c.f, c.i, x)
      [] c.op = "compose" -> Compose(c.f, c.g, x)
      [] c.op = "keymap" -> KeyMap(c.f, x)
      [] c.op = "valmap" -> ValMap(c.f, x)

-----------------------------------------------------------------------------
(* The formatters of geth.py *)

to_ascii_if_bytes == apply_formatter_if(bytes_to_ascii, is_bytes)

to_integer_if_hex == apply_formatter_if(hex_to_integer, is_string)

block_number_formatter == apply_formatter_if(hex, is_integer)

TRANSACTION_PARAMS_FORMATTERS ==
    [value |-> hex,
     gas |-> hex,
     gasPrice |-> hex,
     nonce |-> hex]

transaction_params_formatter ==
    apply_formatters_to_dict(TRANSACTION_PARAMS_FORMATTERS)

TRANSACTION_FORMATTERS ==
    [blockNumber |-> apply_formatter_if(to_integer_if_hex, is_not_null),
     transactionIndex |-> apply_formatter_if(to_integer_if_hex, is_not_null),
     nonce |-> to_integer_if_hex,
     gas |-> to_integer_if_hex,
     gasPrice |-> to_integer_if_hex,
     value |-> to_integer_if_hex,
     from |-> to_normalized_address,
     to |-> to_normalized_address,
     hash |-> to_ascii_if_bytes]

transaction_formatter == apply_formatters_to_dict(TRANSACTION_FORMATTERS)

LOG_ENTRY_FORMATTERS ==
    [blockHash |-> apply_formatter_if(to_ascii_if_bytes, is_not_null),
     blockNumber |-> apply_formatter_if(to_integer_if_hex, is_not_null),
     transactionIndex |-> apply_formatter_if(to_integer_if_hex, is_not_null),
     logIndex |-> to_integer_if_hex,
     address |-> to_normalized_address,
     topics |-> apply_formatter_to_array(to_ascii_if_bytes),
     data |-> to_ascii_if_bytes]

log_entry_formatter == apply_formatters_to_dict(LOG_ENTRY_FORMATTERS)

\* Faulty variant: the receipt's logs are left as received.
RECEIPT_FORMATTERS_logs_unformatted ==
    [blockHash |-> apply_formatter_if(to_ascii_if_bytes, is_not_null),
     blockNumber |-> apply_formatter_if(to_integer_if_hex, is_not_null),
     transactionIndex |-> apply_formatter_if(to_integer_if_hex, is_not_null),
     transactionHash |-> to_ascii_if_bytes,
     cumulativeGasUsed |-> to_integer_if_hex,
     gasUsed |-> to_integer_if_hex,
     contractAddress |-> apply_formatter_if(to_normalized_address, is_not_null)]

RECEIPT_FORMATTERS ==
    [blockHash |-> apply_formatter_if(to_ascii_if_bytes, is_not_null),
     blockNumber |-> apply_formatter_if(to_integer_if_hex, is_not_null),
     transactionIndex |-> apply_formatter_if(to_integer_if_hex, is_not_null),
     transactionHash |-> to_ascii_if_bytes,
     cumulativeGasUsed |-> to_integer_if_hex,
     gasUsed |-> to_integer_if_hex,
     contractAddress |-> apply_formatter_if(to_normalized_address, is_not_null),
     logs |-> apply_formatter_to_array(log_entry_formatter)]

receipt_formatter == apply_formatters_to_dict(RECEIPT_FORMATTERS)

\* Faulty variant: every member of transactions is taken for a full transaction.
BLOCK_FORMATTERS_no_dict_guard ==
    [gasLimit |-> to_integer_if_hex,
     gasUsed |-> to_integer_if_hex,
     size |-> to_integer_if_hex,
     timestamp |-> to_integer_if_hex,
     hash |-> to_ascii_if_bytes,
     number |-> apply_formatter_if(to_integer_if_hex, is_not_null),
     difficulty |-> to_integer_if_hex,
     totalDifficulty |-> to_integer_if_hex,
     transactions |-> apply_formatter_to_array(transaction_formatter)]

BLOCK_FORMATTERS ==
    [gasLimit |-> to_integer_if_hex,
     gasUsed |-> to_integer_if_hex,
     size |-> to_integer_if_hex,
     timestamp |-> to_integer_if_hex,
     hash |-> to_ascii_if_bytes,
     number |-> apply_formatter_if(to_integer_if_hex, is_not_null),
     difficulty |-> to_integer_if_hex,
     totalDifficulty |-> to_integer_if_hex,
     transactions |-> apply_formatter_to_array(
                          apply_formatter_if(transaction_formatter, is_dict))]

block_formatter == apply_formatters_to_dict(BLOCK_FORMATTERS)

SYNCING_FORMATTERS ==
    [startingBlock |-> to_integer_if_hex,
     currentBlock |-> to_integer_if_hex,
     highestBlock |-> to_integer_if_hex,
     knownStates |-> to_integer_if_hex,
     pulledStates |-> to_integer_if_hex]

syncing_formatter == apply_formatters_to_dict(SYNCING_FORMATTERS)

TRANSACTION_POOL_CONTENT_FORMATTERS ==
    [pending |-> compose(keymap(to_ascii_if_bytes),
                         valmap(transaction_formatter)),
     queued |-> compose(keymap(to_ascii_if_bytes),
                        valmap(transaction_formatter))]

transaction_pool_content_formatter ==
    apply_formatters_to_dict(TRANSACTION_POOL_CONTENT_FORMATTERS)

TRANSACTION_POOL_INSPECT_FORMATTERS ==
    [pending |-> keymap(to_ascii_if_bytes),
     queued |-> keymap(to_ascii_if_bytes)]

transaction_pool_inspect_formatter ==
    apply_formatters_to_dict(TRANSACTION_POOL_INSPECT_FORMATTERS)

FILTER_PARAMS_FORMATTERS ==
    [fromBlock |-> apply_formatter_if(hex, is_integer),
     toBlock |-> apply_formatter_if(hex, is_integer)]

filter_params_formatter == apply_formatters_to_dict(FILTER_PARAMS_FORMATTERS)

\* Faulty variant: eth_getBalance formats the address position, not the block's.
request_formatters_balance_at_0 ==
    [eth_call |-> apply_formatter_at_index(transaction_params_formatter, 0),
     eth_getBalance |-> apply_formatter_at_index(block_number_formatter, 0),
     eth_getBlockByNumber |->
         apply_formatter_at_index(block_number_formatter, 0),
     eth_getBlockTransactionCountByNumber |->
         apply_formatter_at_index(block_number_formatter, 1),
     eth_getBlockTransactionCountByHash |->
         apply_formatter_at_index(block_number_formatter, 1),
     eth_getCode |-> apply_formatter_at_index(block_number_formatter, 1),
     eth_getStorageAt |->
         compose(apply_formatter_at_index(hex, 1),
                 apply_formatter_at_index(block_number_formatter, 2)),
     eth_getTransactionByBlockNumberAndIndex |->
         compose(apply_formatter_at_index(block_number_formatter, 0),
                 apply_formatter_at_index(hex, 1)),
     eth_getTransactionByBlockHashAndIndex |->
         apply_formatter_at_index(hex, 1),
     eth_getTransactionCount |->
         apply_formatter_at_index(block_number_formatter, 1),
     eth_newFilter |-> apply_formatter_at_index(filter_params_formatter, 0),
     eth_sendTransaction |->
         apply_formatter_at_index(transaction_params_formatter, 0)]

\* GethFormattingMiddleware.request_formatters
request_formatters ==
    [eth_call |-> apply_formatter_at_index(transaction_params_formatter, 0),
     eth_getBalance |-> apply_formatter_at_index(block_number_formatter, 1),
     eth_getBlockByNumber |->
         apply_formatter_at_index(block_number_formatter, 0),
     eth_getBlockTransactionCountByNumber |->
         apply_formatter_at_index(block_number_formatter, 1),
     eth_getBlockTransactionCountByHash |->
         apply_formatter_at_index(block_number_formatter, 1),
     eth_getCode |-> apply_formatter_at_index(block_number_formatter, 1),
     eth_getStorageAt |->
         compose(apply_formatter_at_index(hex, 1),
                 apply_formatter_at_index(block_number_formatter, 2)),
     eth_getTransactionByBlockNumberAndIndex |->
         compose(apply_formatter_at_index(block_number_formatter, 0),
                 apply_formatter_at_index(hex, 1)),
     eth_getTransactionByBlockHashAndIndex |->
         apply_formatter_at_index(hex, 1),
     eth_getTransactionCount |->
         apply_formatter_at_index(block_number_formatter, 1),
     eth_newFilter |-> apply_formatter_at_index(filter_params_formatter, 0),
     eth_sendTransaction |->
         apply_formatter_at_index(transaction_params_formatter, 0)]

\* GethFormattingMiddleware.result_formatters
result_formatters ==
    [eth_accounts |-> apply_formatter_to_array(to_normalized_address),
     eth_blockNumber |-> to_integer_if_hex,
     eth_coinbase |-> to_normalized_address,
     eth_estimateGas |-> to_integer_if_hex,
     eth_gasPrice |-> to_integer_if_hex,
     eth_getBlockByHash |-> block_formatter,
     eth_getBlockByNumber |-> block_formatter,
     eth_getBlockTransactionCountByHash |-> to_integer_if_hex,
     eth_getBlockTransactionCountByNumber |-> to_integer_if_hex,
     eth_getCode |-> to_ascii_if_bytes,
     eth_getFilterChanges |-> apply_formatter_to_array(log_entry_formatter),
     eth_getFilterLogs |-> apply_formatter_to_array(log_entry_formatter),
     eth_getTransactionByBlockHashAndIndex |->
         apply_formatter_if(transaction_formatter, is_not_null),
     eth_getTransactionByBlockNumberAndIndex |->
         apply_formatter_if(transaction_formatter, is_not_null),
     eth_getTransactionByHash |->
         apply_formatter_if(transaction_formatter, is_not_null),
     eth_getTransactionCount |-> to_integer_if_hex,
     eth_getTransactionReceipt |->
         apply_formatter_if(receipt_formatter, is_not_null),
     eth_hashrate |-> to_integer_if_hex,
     eth_sendRawTransaction |-> to_ascii_if_bytes,
     eth_sendTransaction |-> to_ascii_if_bytes,
     eth_syncing |-> apply_formatter_if(syncing_formatter, is_dict),
     shh_version |-> to_integer_if_hex,
     txpool_content |-> transaction_pool_content_formatter,
     txpool_inspect |-> transaction_pool_inspect_formatter]

\* BaseFormatterMiddleware: a method the table does not hold passes through.
formatRequest(m, params) ==
    IF m \in DOMAIN request_formatters
    THEN Apply(request_formatters[m], params)
    ELSE params

formatResult(m, result) ==
    IF m \in DOMAIN result_formatters
    THEN Apply(result_formatters[m], result)
    ELSE result

-----------------------------------------------------------------------------
(* Inputs: what a caller passes and what a node answers *)

MaxParams == 3

MaxTxs == 2

MaxLogs == 2

SeqsUpTo(S, n) == UNION {[1..k -> S] : k \in 0..n}

Hex2 == Text(<<"0", "x", "2">>)

Hex5 == Text(<<"0", "x", "5">>)

HexUpperFF == Text(<<"0", "X", "F", "f">>)

Latest == Word("latest")

AddrText == Text(<<"0", "x">> \o [i \in 1..40 |-> IF i % 2 = 1 THEN "A" ELSE "b"])

AddrBytes == Bytes([i \in 1..20 |-> IF i % 2 = 1 THEN "<ab>" ELSE "<00>"])

HashBytes == Bytes(<<"0", "x", "a", "b">>)

BadBytes == Bytes(<<"0", "x", NonAscii>>)

HashText == Text(<<"0", "x", "a", "b">>)

ParamValues ==
    {Integer(-1), Integer(255), Latest, Null, Bool(TRUE),
     Obj([value |-> Integer(5), gas |-> Latest]),
     Obj([value |-> Integer(5), gas |-> Integer(255), to |-> AddrText]),
     Obj([nonce |-> Integer(-1), data |-> HashText]),
     Obj([fromBlock |-> Integer(5), toBlock |-> Latest, address |-> AddrText])}

ParamLists == {List(s) : s \in SeqsUpTo(ParamValues, MaxParams)}

Passthrough == "net_version"

RequestMethods == DOMAIN request_formatters \cup {Passthrough}

ResultMethods == DOMAIN result_formatters \cup {Passthrough}

Tx(bn, to, val) ==
    Obj([blockNumber |-> bn, transactionIndex |-> bn, nonce |-> Hex5,
         value |-> val, from |-> AddrBytes, to |-> to, hash |-> HashBytes,
         input |-> Hex2])

MinedTx == Tx(Hex5, AddrText, Hex2)

PendingTx == Tx(Null, AddrText, Hex2)

CreationTx == Tx(Hex5, Null, Hex2)

BadValueTx == Tx(Hex5, AddrText, Latest)

SparseTx == Obj([value |-> Hex2, gas |-> Integer(5), input |-> Hex2])

TxSet == {MinedTx, PendingTx, CreationTx, BadValueTx, SparseTx}

Log(bh, topics) ==
    Obj([blockHash |-> bh, blockNumber |-> IF IsNull(bh) THEN Null ELSE Hex5,
         transactionIndex |-> IF IsNull(bh) THEN Null ELSE Hex2,
         logIndex |-> Hex2, address |-> AddrText, topics |-> List(topics),
         data |-> HashBytes, removed |-> Bool(FALSE)])

LogSet ==
    {Log(HashBytes, <<HashBytes, HashText>>), Log(Null, <<>>),
     Log(HashBytes, <<HashBytes, BadBytes>>), Obj([logIndex |-> Hex2])}

LogLists == {List(s) : s \in SeqsUpTo(LogSet, MaxLogs)}

Receipt(ca, logs) ==
    Obj([blockHash |-> HashBytes, blockNumber |-> Hex5,
         transactionIndex |-> Hex2, transactionHash |-> HashBytes,
         cumulativeGasUsed |-> HexUpperFF, gasUsed |-> Hex5,
         contractAddress |-> ca, logs |-> logs, root |-> HashText])

ReceiptSet == {Receipt(ca, logs) : ca \in {Null, AddrBytes}, logs \in LogLists}

BlockTxs == {MinedTx, PendingTx, BadValueTx, HashText}

Block(n, txs) ==
    Obj([number |-> n, hash |-> HashBytes,
         gasLimit |-> HexUpperFF, gasUsed |-> Hex5, size |-> Hex2,
         timestamp |-> Hex5, difficulty |-> Hex2, totalDifficulty |-> Hex5,
         transactions |-> List(txs), miner |-> AddrText])

BlockSet ==
    {Block(n, txs) : n \in {Null, Hex5}, txs \in SeqsUpTo(BlockTxs, MaxTxs)}

SyncingSet ==
    {Obj([startingBlock |-> Hex2, currentBlock |-> Hex5,
          highestBlock |-> HexUpperFF]),
     Obj([startingBlock |-> Latest])}

\* txpool_content as geth answers it: sender -> nonce -> transaction.
NestedPool(sender, tx) ==
    Dict({<<sender, Dict({<<Word("0"), tx>>, <<Word("1"), PendingTx>>})>>})

\* A pool of one level: sender -> transaction.
FlatPool(sender, tx) == Dict({<<sender, tx>>})

PoolSet ==
    {Obj([pending |-> p, queued |-> Dict({})]) :
        p \in {NestedPool(HashBytes, PendingTx), NestedPool(HashText, BadValueTx),
               NestedPool(BadBytes, PendingTx), FlatPool(HashBytes, PendingTx),
               FlatPool(HashText, BadValueTx),
               Dict({<<HashBytes, Dict({<<Word("0"), Word("summary")>>})>>})}}

ScalarResults ==
    {Null, Bool(FALSE), Integer(5), Hex5, HexUpperFF, Latest, AddrText,
     AddrBytes, HashBytes, BadBytes}

RawResults ==
    ScalarResults \cup TxSet \cup LogSet \cup LogLists \cup ReceiptSet
        \cup BlockSet \cup SyncingSet \cup PoolSet
        \cup {List(<<AddrText, AddrBytes>>), List(<<AddrText, Latest>>)}

\* Python's int has no width and the model's has 32 bits: the one answer
\* whose hex text is 160 bits long is left out for the methods that read a
\* text answer as an integer.
ReadsInteger(m) ==
    /\ m \in DOMAIN result_formatters
    /\ result_formatters[m].op = "if"
    /\ result_formatters[m].p = is_string

AnswersTo(m) == {r \in RawResults : ~(r = AddrText /\ ReadsInteger(m))}

-----------------------------------------------------------------------------
(* The middleware at work *)

Init ==
    /\ pc = "idle"
    /\ method = Passthrough
    /\ input = Null
    /\ output = Null

\* process_request: the parameters of a call go through the request table.
ProcessRequest ==
    /\ pc = "idle"
    /\ \E m \in RequestMethods, params \in ParamLists :
          /\ pc' = "request"
          /\ method' = m
          /\ input' = params
          /\ output' = formatRequest(m, params)

\* process_response: the node's answer goes through the result table.
ProcessResponse ==
    /\ pc = "idle"
    /\ \E m \in ResultMethods :
          \E result \in AnswersTo(m) :
             /\ pc' = "response"
             /\ method' = m
             /\ input' = result
             /\ output' = formatResult(m, result)

\* The formatted value (or the exception) is handed on; nothing is kept.
Return ==
    /\ pc # "idle"
    /\ pc' = "idle"
    /\ method' = Passthrough
    /\ input' = Null
    /\ output' = Null

Next ==
    \/ ProcessRequest
    \/ ProcessResponse
    \/ Return

Spec == Init /\ [][Next]_vars

-----------------------------------------------------------------------------
(* Properties *)

Requested == pc = "request"

Responded == pc = "response"

Has(m, name) == m.t = "map" /\ Word(name) \in Keys(m)

Get(m, name) == m.map[Word(name)]

\* Some field of dict m that the table lists makes its converter raise.
FieldFails(table, m) ==
    \E k \in Keys(m) : InTable(k, table) /\ IsFail(Apply(table[k.s[1]], m.map[k]))

\* C1: the positions of the parameter list each request formatter is meant
\* to touch, counted from 0.
DesignatedPositions ==
    [eth_call |-> {0},
     eth_getBalance |-> {1},
     eth_getBlockByNumber |-> {0},
     eth_getBlockTransactionCountByNumber |-> {1},
     eth_getBlockTransactionCountByHash |-> {1},
     eth_getCode |-> {1},
     eth_getStorageAt |-> {1, 2},
     eth_getTransactionByBlockNumberAndIndex |-> {0, 1},
     eth_getTransactionByBlockHashAndIndex |-> {1},
     eth_getTransactionCount |-> {1},
     eth_newFilter |-> {0},
     eth_sendTransaction |-> {0}]

\* C1: a request that formatRequest formats without raising comes back as a
\* list of the same length that differs from the parameters at most at the
\* positions designated for the method.
RequestFrame ==
    (Requested /\ method \in DOMAIN DesignatedPositions /\ ~IsFail(output)) =>
        /\ output.t = "seq"
        /\ Len(output.items) = Len(input.items)
        /\ \A i \in 1..Len(input.items) :
              (i - 1) \notin DesignatedPositions[method] =>
                  output.items[i] = input.items[i]

RequestFrameWitness ==
    /\ Requested
    /\ method = "eth_getStorageAt"
    /\ ~IsFail(output)
    /\ Len(input.items) = MaxParams
    /\ output.items[1] = input.items[1]
    /\ output.items[2] # input.items[2]
    /\ output.items[3] # input.items[3]

\* The formatter txpool_content would have if it read the pool as
\* sender -> nonce -> transaction.
NestedPoolFormatter ==
    apply_formatters_to_dict(
        [pending |-> compose(keymap(to_ascii_if_bytes),
                             valmap(valmap(transaction_formatter))),
         queued |-> compose(keymap(to_ascii_if_bytes),
                            valmap(valmap(transaction_formatter)))])

IsNestedPool(x) ==
    /\ Has(x, "pending")
    /\ Get(x, "pending").t = "map"
    /\ \A s \in Keys(Get(x, "pending")) :
          /\ Get(x, "pending").map[s].t = "map"
          /\ \A n \in Keys(Get(x, "pending").map[s]) :
                Has(Get(x, "pending").map[s].map[n], "value")

\* C2: formatResult("txpool_content", r) decodes each sender key and runs
\* every transaction under each nonce key of the sender's dict through the
\* transaction field table.
PoolContentFormatsNestedTransactions ==
    (Responded /\ method = "txpool_content" /\ IsNestedPool(input)) =>
        output = Apply(NestedPoolFormatter, input)

\* C3: formatting the output of a successful formatRequest or formatResult
\* once more, for the same method, succeeds and gives that output again.
FormattersIdempotent ==
    /\ (Requested /\ ~IsFail(output)) => formatRequest(method, output) = output
    /\ (Responded /\ ~IsFail(output)) => formatResult(method, output) = output

\* On success every listed field of the entity holds its converter's value.
FullyConverted(table, in, out) ==
    /\ out.t = "map"
    /\ \A k \in Keys(in) :
          InTable(k, table) => out.map[k] = Apply(table[k.s[1]], in.map[k])

\* A list member that is a dict with a field whose converter raises.
MemberFails(table, list) ==
    /\ list.t = "seq"
    /\ \E i \in 1..Len(list.items) : list.items[i].t = "map" /\ FieldFails(table, list.items[i])

TransactionMethods ==
    {"eth_getTransactionByHash", "eth_getTransactionByBlockHashAndIndex",
     "eth_getTransactionByBlockNumberAndIndex"}

BlockMethods == {"eth_getBlockByHash", "eth_getBlockByNumber"}

LogListMethods == {"eth_getFilterChanges", "eth_getFilterLogs"}

\* A raised value somewhere inside a returned one.
RECURSIVE FailInside(_)
FailInside(x) ==
    CASE x.t = "fail" -> TRUE
      [] x.t = "seq" -> \E i \in 1..Len(x.items) : FailInside(x.items[i])
      [] x.t = "map" -> \E k \in Keys(x) : FailInside(x.map[k])
      [] OTHER -> FALSE

\* The entity table a result method applies to a dict answer.
EntityTable(m) ==
    CASE m \in TransactionMethods -> TRANSACTION_FORMATTERS
      [] m \in BlockMethods -> BLOCK_FORMATTERS
      [] m = "eth_getTransactionReceipt" -> RECEIPT_FORMATTERS
      [] m = "eth_syncing" -> SYNCING_FORMATTERS

EntityMethods ==
    TransactionMethods \cup BlockMethods
        \cup {"eth_getTransactionReceipt", "eth_syncing"}

\* C4: a call ends in one of two ways.  When a converter of a field raises,
\* be the field the entity's own, a receipt's log's, a block's transaction's
\* or a transaction parameter's, the call raises; when the call returns, no
\* raised value is left inside the result and every listed field of the
\* entity holds its converted value.
AllOrNothing ==
    /\ (pc # "idle" /\ ~IsFail(output)) => ~FailInside(output)
    /\ (Responded /\ method \in LogListMethods
            /\ MemberFails(LOG_ENTRY_FORMATTERS, input)) =>
          IsFail(output)
    /\ (Responded /\ method \in EntityMethods /\ input.t = "map") =>
          /\ FieldFails(EntityTable(method), input) => IsFail(output)
          /\ ~IsFail(output) => FullyConverted(EntityTable(method), input, output)
    /\ (Responded /\ method = "eth_getTransactionReceipt" /\ Has(input, "logs")
            /\ MemberFails(LOG_ENTRY_FORMATTERS, Get(input, "logs"))) =>
          IsFail(output)
    /\ (Responded /\ method \in BlockMethods /\ Has(input, "transactions")
            /\ MemberFails(TRANSACTION_FORMATTERS, Get(input, "transactions"))) =>
          IsFail(output)
    /\ (Requested /\ method \in {"eth_call", "eth_sendTransaction"}
            /\ Len(input.items) >= 1 /\ input.items[1].t = "map") =>
          /\ FieldFails(TRANSACTION_PARAMS_FORMATTERS, input.items[1]) => IsFail(output)
          /\ ~IsFail(output) =>
                FullyConverted(TRANSACTION_PARAMS_FORMATTERS, input.items[1], output.items[1])

AllOrNothingWitness ==
    /\ Responded
    /\ method = "eth_getTransactionReceipt"
    /\ Has(input, "logs")
    /\ ~FieldFails([f \in DOMAIN RECEIPT_FORMATTERS \ {"logs"} |->
                       RECEIPT_FORMATTERS[f]], input)
    /\ Len(Get(input, "logs").items) = MaxLogs
    /\ ~FieldFails(LOG_ENTRY_FORMATTERS, Get(input, "logs").items[1])
    /\ FieldFails(LOG_ENTRY_FORMATTERS, Get(input, "logs").items[MaxLogs])
    /\ IsFail(output)

NullableResultMethods ==
    BlockMethods \cup TransactionMethods \cup {"eth_getTransactionReceipt"}

\* C5: for a result method whose entity may not exist, formatResult of null
\* is null.
NullResultPassesThrough ==
    (Responded /\ method \in NullableResultMethods /\ input = Null) =>
        output = Null

NonNegativeInteger(x) == x.t = "int" /\ x.n >= 0

HexPositionMethods ==
    {"eth_getStorageAt", "eth_getTransactionByBlockNumberAndIndex",
     "eth_getTransactionByBlockHashAndIndex"}

\* C6: a value that is not a non-negative integer, at index 1 of the methods
\* that hex-encode it or in a transaction parameter's value, gas, gasPrice
\* or nonce, makes formatRequest raise.
HexRejectsNonNatural ==
    /\ (Requested /\ method \in HexPositionMethods /\ Len(input.items) >= 2
            /\ ~NonNegativeInteger(input.items[2])) =>
          IsFail(output)
    /\ (Requested /\ method \in {"eth_call", "eth_sendTransaction"}
            /\ Len(input.items) >= 1 /\ input.items[1].t = "map"
            /\ \E k \in Keys(input.items[1]) :
                  /\ InTable(k, TRANSACTION_PARAMS_FORMATTERS)
                  /\ ~NonNegativeInteger(input.items[1].map[k])) =>
          IsFail(output)

\* The positional formatters of the composed request formatters, in the
\* order the source writes them.
DeclaredStages ==
    [eth_getStorageAt |->
         <<apply_formatter_at_index(hex, 1),
           apply_formatter_at_index(block_number_formatter, 2)>>,
     eth_getTransactionByBlockNumberAndIndex |->
         <<apply_formatter_at_index(block_number_formatter, 0),
           apply_formatter_at_index(hex, 1)>>]

Reverse(s) == [i \in 1..Len(s) |-> s[Len(s) + 1 - i]]

\* The stages applied one after the other, first to last, each to the list
\* the one before it returned; a stage that raises ends the call.
RECURSIVE Pipeline(_, _)
Pipeline(stages, x) ==
    IF Len(stages) = 0 THEN x
    ELSE LET y == Apply(Head(stages), x)
         IN  IF IsFail(y) THEN y ELSE Pipeline(Tail(stages), y)

\* Every position a stage targets holds the stage's conversion of the
\* parameter that was there.
EveryStageConverted(stages, in, out) ==
    \A j \in 1..Len(stages) :
        out.items[stages[j].i + 1] = Apply(stages[j].f, in.items[stages[j].i + 1])

PoolMethods == {"txpool_content", "txpool_inspect"}

DictParamMethods == {"eth_call", "eth_sendTransaction", "eth_newFilter"}

\* The table a request method applies to its first parameter.
ParamTable(m) ==
    IF m = "eth_newFilter" THEN FILTER_PARAMS_FORMATTERS
    ELSE TRANSACTION_PARAMS_FORMATTERS

\* C8: an entity field table applied to a dict returns a dict of the same
\* keys; a key the table does not list keeps its value, and a listed key
\* the dict lacks is not added and raises nothing.
KeySetPreserved ==
    /\ (Responded /\ method \in EntityMethods /\ input.t = "map") =>
          /\ ~FieldFails(EntityTable(method), input) => ~IsFail(output)
          /\ ~IsFail(output) =>
                /\ Keys(output) = Keys(input)
                /\ \A k \in Keys(input) :
                      ~InTable(k, EntityTable(method)) => output.map[k] = input.map[k]
    /\ (Responded /\ method \in PoolMethods /\ input.t = "map"
            /\ ~IsFail(output)) =>
          Keys(output) = Keys(input)
    /\ (Responded /\ method \in LogListMethods /\ input.t = "seq"
            /\ ~IsFail(output)) =>
          \A i \in 1..Len(input.items) :
              input.items[i].t = "map" =>
                  Keys(output.items[i]) = Keys(input.items[i])
    /\ (Requested /\ method \in DictParamMethods /\ Len(input.items) >= 1
            /\ input.items[1].t = "map" /\ ~IsFail(output)) =>
          /\ Keys(output.items[1]) = Keys(input.items[1])
          /\ \A k \in Keys(input.items[1]) :
                ~InTable(k, ParamTable(method)) =>
                    output.items[1].map[k] = input.items[1].map[k]

KeySetPreservedWitness ==
    /\ Responded
    /\ method = "eth_getTransactionByHash"
    /\ input = SparseTx
    /\ ~IsFail(output)
    /\ output # input
    /\ Get(output, "input") = Get(input, "input")
    /\ ~Has(output, "blockNumber")

NullableFields ==
    {"blockHash", "blockNumber", "transactionIndex", "number",
     "contractAddress", "to"}

OnlyLegalNulls(m) ==
    /\ \E k \in Keys(m) : m.map[k] = Null
    /\ \A k \in Keys(m) : m.map[k] = Null => k.s[1] \in NullableFields

OtherFieldsConvert(table, m) ==
    \A k \in Keys(m) :
        (InTable(k, table) /\ m.map[k] # Null) =>
            ~IsFail(Apply(table[k.s[1]], m.map[k]))

\* C9: a transaction, receipt or block whose only null fields are ones that
\* may be null is formatted without raising: the null fields stay null and
\* the other listed fields are converted.
NullableFieldsGuarded ==
    (Responded /\ method \in NullableResultMethods /\ input.t = "map"
        /\ OnlyLegalNulls(input)
        /\ OtherFieldsConvert(EntityTable(method), input)) =>
        /\ ~IsFail(output)
        /\ \A k \in Keys(input) : input.map[k] = Null => output.map[k] = Null
        /\ FullyConverted(EntityTable(method), input, output)

\* What a block's transactions array is to become: a dict member's image
\* under the transaction field table, any other member as it is.
ExpectedTransactions(txs) ==
    [i \in 1..Len(txs) |->
        IF txs[i].t = "map" THEN Apply(transaction_formatter, txs[i])
        ELSE txs[i]]

OtherBlockFieldsConvert(b) ==
    \A k \in Keys(b) \ {Word("transactions")} :
        InTable(k, BLOCK_FORMATTERS) =>
            ~IsFail(Apply(BLOCK_FORMATTERS[k.s[1]], b.map[k]))

\* C10: a block's transactions array is formatted member by member, order
\* and length kept: a dict becomes its transaction-table image, a bare hash
\* stays as received, in any mix; the block raises only if a member does.
BlockTransactionsElementwise ==
    (Responded /\ method \in BlockMethods /\ Has(input, "transactions")
        /\ Get(input, "transactions").t = "seq"
        /\ OtherBlockFieldsConvert(input)) =>
        LET expected == ExpectedTransactions(Get(input, "transactions").items)
        IN  IF \E i \in 1..Len(expected) : IsFail(expected[i])
            THEN IsFail(output)
            ELSE /\ ~IsFail(output)
                 /\ Get(output, "transactions") = List(expected)

BlockTransactionsWitness ==
    /\ Responded
    /\ method = "eth_getBlockByNumber"
    /\ ~IsFail(output)
    /\ Has(input, "transactions")
    /\ Len(Get(input, "transactions").items) = MaxTxs
    /\ Get(input, "transactions").items[1] = HashText
    /\ Get(output, "transactions").items[1] = HashText
    /\ Get(input, "transactions").items[MaxTxs].t = "map"
    /\ Get(output, "transactions").items[MaxTxs] # Get(input, "transactions").items[MaxTxs]

=============================================================================
